---------------------------- MODULE Spec2Model ----------------------------
(***************************************************************************)
(* Model of the MecSimCalc utility functions:                              *)
(*   - input_to_file and metadata_to_filetype (general_utils.py), the      *)
(*     payload codec;                                                      *)
(*   - file_to_dataframe (spreadsheet_utils.py), the csv-then-excel        *)
(*     parsing fallback.                                                   *)
(* A Python str is a sequence of one-character strings, a bytes object a   *)
(* sequence of integers in 0..255.                                         *)
(***************************************************************************)
EXTENDS Integers, Sequences, FiniteSets, TLC

(***************************************************************************)
(* Bounds of the explored inputs.                                          *)
(***************************************************************************)
\* longest sequence of pieces concatenated into an input string
MaxPieces == 3
\* longest byte string that is encoded into a well-formed payload
MaxBytes == 3
\* number of send_gmail calls that are followed
MaxCalls == 2
\* number of threads that call into the library concurrently
NumThreads == 2

(***************************************************************************)
(* String literals of the source.                                          *)
(***************************************************************************)
\* the literal ";base64," of general_utils.py
SEP ==
    <<";", "b", "a", "s", "e", "6", "4", ",">>

\* the Excel Open XML subtype compared against in metadata_to_filetype
XLSX_MIME ==
    <<"v", "n", "d", ".", "o", "p", "e", "n", "x", "m", "l", "f", "o", "r",
      "m", "a", "t", "s", "-", "o", "f", "f", "i", "c", "e", "d", "o", "c",
      "u", "m", "e", "n", "t", ".", "s", "p", "r", "e", "a", "d", "s", "h",
      "e", "e", "t", "m", "l", ".", "s", "h", "e", "e", "t">>

\* the label "xlsx"
XLSX == <<"x", "l", "s", "x">>

\* the standard (RFC 4648, not URL-safe) base64 alphabet used by b64decode
B64 ==
    <<"A", "B", "C", "D", "E", "F", "G", "H", "I", "J", "K", "L", "M", "N",
      "O", "P", "Q", "R", "S", "T", "U", "V", "W", "X", "Y", "Z", "a", "b",
      "c", "d", "e", "f", "g", "h", "i", "j", "k", "l", "m", "n", "o", "p",
      "q", "r", "s", "t", "u", "v", "w", "x", "y", "z", "0", "1", "2", "3",
      "4", "5", "6", "7", "8", "9", "+", "/">>

\* a character outside ASCII (stands for any code point above 127)
NonAscii == "U+00E9"

B64Set == { B64[i] : i \in 1..64 }

\* value of a base64 alphabet character, 0..63
B64Val == [ c \in B64Set |-> (CHOOSE i \in 1..64 : B64[i] = c) - 1 ]

(***************************************************************************)
(* Python str operations used by the source.                               *)
(***************************************************************************)
\* s[i : i + len(pat)] == pat, for a 1-based i
MatchAt(s, i, pat) ==
    /\ i >= 1
    /\ i + Len(pat) - 1 <= Len(s)
    /\ \A k \in 1..Len(pat) : s[i + k - 1] = pat[k]

\* s.find(pat, from): the least index >= from where pat occurs, 0 if none
Find(s, pat, from) ==
    LET hits == { i \in from..(Len(s) - Len(pat) + 1) : MatchAt(s, i, pat) }
    IN  IF hits = {} THEN 0
        ELSE CHOOSE i \in hits : \A j \in hits : i <= j

\* pat in s
Contains(s, pat) == Find(s, pat, 1) # 0

\* s.split(pat): the pieces between the non-overlapping occurrences of pat,
\* scanned from the left
RECURSIVE SplitFrom(_, _, _)
SplitFrom(s, pat, from) ==
    LET i == Find(s, pat, from)
    IN  IF i = 0 THEN << SubSeq(s, from, Len(s)) >>
        ELSE << SubSeq(s, from, i - 1) >> \o SplitFrom(s, pat, i + Len(pat))

Split(s, pat) == SplitFrom(s, pat, 1)

(***************************************************************************)
(* base64.b64decode(s) with its default validate=False, and b64encode.     *)
(***************************************************************************)
Decoded(bs) == [exc |-> "none", msg |-> "", bytes |-> bs]

DecodeFailure(e, m) == [exc |-> e, msg |-> m, bytes |-> << >>]

\* The decoding loop of binascii.a2b_base64 in its non-strict mode.
\*   quad : position inside the current group of four data characters
\*   left : the bits left over from the previous data character
\*   pads : "=" characters seen since the last data character
\* Characters outside the alphabet are skipped; a pad sequence that completes
\* a group ends the decoding, whatever follows it.
RECURSIVE a2b_base64(_, _, _, _, _, _)
a2b_base64(s, i, quad, left, pads, out) ==
    IF i > Len(s)
    THEN IF quad = 0 THEN Decoded(out)
         ELSE IF quad = 1
              THEN DecodeFailure("binascii.Error",
                                 "Invalid base64-encoded string")
              ELSE DecodeFailure("binascii.Error", "Incorrect padding")
    ELSE LET c == s[i] IN
         IF c = "="
         THEN IF quad >= 2 /\ quad + pads + 1 >= 4
              THEN Decoded(out)
              ELSE a2b_base64(s, i + 1, quad, left,
                              IF quad >= 2 THEN pads + 1 ELSE pads, out)
         ELSE IF c \notin B64Set
         THEN a2b_base64(s, i + 1, quad, left, pads, out)
         ELSE LET v == B64Val[c] IN
              CASE quad = 0 ->
                     a2b_base64(s, i + 1, 1, v, 0, out)
                [] quad = 1 ->
                     a2b_base64(s, i + 1, 2, v % 16, 0,
                                Append(out, ((left * 4) + (v \div 16)) % 256))
                [] quad = 2 ->
                     a2b_base64(s, i + 1, 3, v % 4, 0,
                                Append(out, ((left * 16) + (v \div 4)) % 256))
                [] quad = 3 ->
                     a2b_base64(s, i + 1, 0, 0, 0,
                                Append(out, ((left * 64) + v) % 256))

\* base64.b64decode(s) for a str s: the str is first encoded as ASCII
\* (ValueError when it cannot be), then decoded.
b64decode(s) ==
    IF \E i \in 1..Len(s) : s[i] = NonAscii
    THEN DecodeFailure("ValueError",
                       "string argument should contain only ASCII characters")
    ELSE a2b_base64(s, 1, 0, 0, 0, << >>)

\* base64.b64encode(bs).decode(): three bytes become four characters, the
\* last group is padded with "=".
RECURSIVE b64encode(_)
b64encode(bs) ==
    IF Len(bs) = 0 THEN << >>
    ELSE IF Len(bs) = 1
    THEN << B64[(bs[1] \div 4) + 1],
            B64[((bs[1] % 4) * 16) + 1], "=", "=" >>
    ELSE IF Len(bs) = 2
    THEN << B64[(bs[1] \div 4) + 1],
            B64[((bs[1] % 4) * 16) + (bs[2] \div 16) + 1],
            B64[((bs[2] % 16) * 4) + 1], "=" >>
    ELSE << B64[(bs[1] \div 4) + 1],
            B64[((bs[1] % 4) * 16) + (bs[2] \div 16) + 1],
            B64[((bs[2] % 16) * 4) + (bs[3] \div 64) + 1],
            B64[(bs[3] % 64) + 1] >>
         \o b64encode(SubSeq(bs, 4, Len(bs)))

(***************************************************************************)
(* general_utils.py                                                        *)
(***************************************************************************)
\* a buffer filled with write() and never rewound: positioned at its end
BytesIO_written(bs) == [data |-> bs, pos |-> Len(bs)]

\* io.BytesIO(initial_bytes): a buffer over the bytes, positioned at 0
BytesIO(bs) == [data |-> bs, pos |-> 0]

\* the absence of a buffer
NoFile == [data |-> << >>, pos |-> -1]

\* outcome of a call: an exception, or a returned value whose shape is
\* "file" (the buffer alone), "pair" (buffer and str) or "str"
Raise(e, m) ==
    [exc |-> e, msg |-> m, shape |-> "none", file |-> NoFile, text |-> << >>]

ReturnFile(f) ==
    [exc |-> "none", msg |-> "", shape |-> "file", file |-> f, text |-> << >>]

ReturnPair(f, t) ==
    [exc |-> "none", msg |-> "", shape |-> "pair", file |-> f, text |-> t]

ReturnStr(t) ==
    [exc |-> "none", msg |-> "", shape |-> "str", file |-> NoFile, text |-> t]

\* input_to_file with the two unpacked parts swapped ("data, meta = ...")
input_to_file_swapped(input_file, metadata) ==
    IF ~ Contains(input_file, SEP)
    THEN Raise("ValueError", "Invalid input: must contain ';base64,'")
    ELSE LET parts == Split(input_file, SEP) IN
         IF Len(parts) # 2
         THEN Raise("ValueError", "too many values to unpack (expected 2)")
         ELSE LET decoded == b64decode(parts[1]) IN
              IF decoded.exc # "none"
              THEN Raise(decoded.exc, decoded.msg)
              ELSE IF metadata
                   THEN ReturnPair(BytesIO(decoded.bytes), parts[2] \o SEP)
                   ELSE ReturnFile(BytesIO(decoded.bytes))

\* input_to_file without the separator check, splitting with
\* str.partition: a missing separator leaves an empty body
input_to_file_unchecked(input_file, metadata) ==
    LET i         == Find(input_file, SEP, 1)
        meta      == IF i = 0 THEN input_file ELSE SubSeq(input_file, 1, i - 1)
        data      == IF i = 0 THEN << >>
                     ELSE SubSeq(input_file, i + Len(SEP), Len(input_file))
        decoded   == b64decode(data)
    IN  IF decoded.exc # "none"
        THEN Raise(decoded.exc, decoded.msg)
        ELSE IF metadata
             THEN ReturnPair(BytesIO(decoded.bytes), meta \o SEP)
             ELSE ReturnFile(BytesIO(decoded.bytes))

\* input_to_file(input_file, metadata)
input_to_file(input_file, metadata) ==
    IF ~ Contains(input_file, SEP)
    THEN Raise("ValueError", "Invalid input: must contain ';base64,'")
    ELSE LET parts == Split(input_file, SEP) IN
         \* meta, data = ...: unpacking anything but two parts is a ValueError
         IF Len(parts) # 2
         THEN Raise("ValueError", "too many values to unpack (expected 2)")
         ELSE LET meta      == parts[1]
                  data      == parts[2]
                  decoded   == b64decode(data)
                  meta_data == meta \o SEP
              IN  IF decoded.exc # "none"
                  THEN Raise(decoded.exc, decoded.msg)
                  ELSE IF metadata
                       THEN ReturnPair(BytesIO(decoded.bytes), meta_data)
                       ELSE ReturnFile(BytesIO(decoded.bytes))

\* the pattern without its leading slash, r"(.+);base64,"
re_search_noslash(s) ==
    LET Ends(i) == { j \in (i + 1)..Len(s) :
                       /\ MatchAt(s, j, SEP)
                       /\ \A k \in i..(j - 1) : s[k] # "\n" }
        starts  == { i \in 1..Len(s) : Ends(i) # {} }
    IN  IF starts = {} THEN [matched |-> FALSE, group1 |-> << >>]
        ELSE LET i == CHOOSE a \in starts : \A b \in starts : a <= b
                 j == CHOOSE a \in Ends(i) : \A b \in Ends(i) : b <= a
             IN  [matched |-> TRUE, group1 |-> SubSeq(s, i, j - 1)]

\* re.search(r"/(.+);base64,", metadata): the leftmost "/" from which the
\* pattern matches; ".+" is greedy and matches no newline, so group 1 runs
\* to the last ";base64," that is reachable without crossing a newline.
GroupEnds(s, i) ==
    { j \in (i + 2)..Len(s) :
        /\ MatchAt(s, j, SEP)
        /\ \A k \in (i + 1)..(j - 1) : s[k] # "\n" }

re_search(s) ==
    LET starts == { i \in 1..Len(s) : s[i] = "/" /\ GroupEnds(s, i) # {} }
    IN  IF starts = {} THEN [matched |-> FALSE, group1 |-> << >>]
        ELSE LET i == CHOOSE a \in starts : \A b \in starts : a <= b
                 j == CHOOSE a \in GroupEnds(s, i) :
                          \A b \in GroupEnds(s, i) : b <= a
             IN  [matched |-> TRUE, group1 |-> SubSeq(s, i + 1, j - 1)]

\* metadata_to_filetype without the Excel alias
metadata_to_filetype_raw(metadata) ==
    LET match == re_search(metadata)
    IN  IF match.matched THEN match.group1 ELSE << >>

\* metadata_to_filetype(metadata)
metadata_to_filetype(metadata) ==
    LET match     == re_search(metadata)
        file_type == IF match.matched THEN match.group1 ELSE << >>
    IN  IF file_type = XLSX_MIME THEN XLSX ELSE file_type

(***************************************************************************)
(* spreadsheet_utils.py: file_to_dataframe, one step per parser attempt.   *)
(* Whether pandas can parse the buffer is not decided by this repository:  *)
(* each attempt succeeds or raises, nondeterministically.                  *)
(***************************************************************************)
Attempt(parser, ok) == [parser |-> parser, ok |-> ok]

NoFrame == [exc |-> "none", state |-> "none", parser |-> "none"]

Pending == [exc |-> "none", state |-> "pending", parser |-> "none"]

\* return df, where df was produced by the named parser
ReturnFrame(parser) == [exc |-> "none", state |-> "returned", parser |-> parser]

\* raise pd.errors.ParserError("File Type Not Supported") from e
RaiseParserError == [exc |-> "ParserError", state |-> "raised", parser |-> "none"]

\* read_csv's result discarded: the excel parser is tried in every case
after_read_csv_always_excel(ok) == [pc |-> "read_excel", df |-> Pending]

\* try: df = pd.read_csv(file); on success fall through to "return df",
\* on any Exception enter the handler, whose first statement is read_excel
after_read_csv(ok) ==
    IF ok THEN [pc |-> "idle", df |-> ReturnFrame("read_csv")]
    ELSE [pc |-> "read_excel", df |-> Pending]

\* try: df = pd.read_excel(file, engine="openpyxl"); on success "return df",
\* on any Exception raise ParserError
after_read_excel(ok) ==
    IF ok THEN [pc |-> "idle", df |-> ReturnFrame("read_excel")]
    ELSE [pc |-> "idle", df |-> RaiseParserError]

(***************************************************************************)
(* The explored inputs.                                                    *)
(***************************************************************************)
\* fragments from which input strings are assembled
Pieces ==
    { << "d" >>,                  \* plain text (also a base64 character)
      << "/" >>,                  \* a slash with nothing after it
      << "/", "c" >>,             \* a slash and a subtype
      SEP,
      << "Q", "Q", "=", "=" >>,   \* canonical encoding of one byte
      << "Q", "R", "=", "=" >>,   \* the same byte, non-zero trailing bits
      << "=" >>,
      << "!" >>,                  \* ASCII, outside the base64 alphabet
      << "\n" >>,
      << NonAscii >> }

RECURSIVE Concat(_)
Concat(ps) == IF ps = << >> THEN << >> ELSE Head(ps) \o Concat(Tail(ps))

PieceSeqs == UNION { [1..n -> Pieces] : n \in 0..MaxPieces }

PieceStrings == { Concat(ps) : ps \in PieceSeqs }

\* metadata prefixes without the separator
Prefixes ==
    { << >>,
      << "d", "a", "t", "a", ":", "i", "m", "a", "g", "e", "/",
         "j", "p", "e", "g" >>,
      << "d", "a", "t", "a", ":", "t", "e", "x", "t", "/", "c", "s", "v" >>,
      << "d", "a", "t", "a", ":", "a", "p", "p", "l", "i", "c", "a", "t",
         "i", "o", "n", "/" >> \o XLSX_MIME,
      << "d", "a", "t", "a", ":", "a", "/", "b", "/", "c" >>,
      << ";", "b", "a", "s", "e", "6", "4" >> }

\* byte values that exercise every bit of the three-byte groups
ByteVals == { 0, 65, 255 }

ByteSeqs == UNION { [1..n -> ByteVals] : n \in 0..MaxBytes }

\* payloads as a client produces them: prefix, separator, encoded bytes
Payload(P, B) == P \o SEP \o b64encode(B)

WellFormed == { [prefix |-> P, bytes |-> B, payload |-> Payload(P, B)] :
                  P \in Prefixes, B \in ByteSeqs }

Inputs == PieceStrings \cup { w.payload : w \in WellFormed }

(***************************************************************************)
(* State.                                                                  *)
(***************************************************************************)
VARIABLES
    input_file,   \* the str handed to the codec
    metadata,     \* the metadata flag of the last input_to_file call
    op,           \* the function called last
    ret,          \* outcome of the last input_to_file call
    arg,          \* argument of the last metadata_to_filetype call
    file_type,    \* outcome of the last metadata_to_filetype call
    pc,           \* position inside file_to_dataframe, "idle" outside it
    log,          \* parser attempts of the current file_to_dataframe call
    df            \* outcome of the current file_to_dataframe call

codecVars == << input_file, metadata, op, ret, arg, file_type, pc, log, df >>

VARIABLES
    m_pc,         \* position inside send_gmail, "idle" outside it
    m_values,     \* the values argument of the current send_gmail call
    m_body,       \* the body built for the message
    m_raised,     \* exception raised inside the with block, "none" if none
    m_net,        \* SMTP operations of the current call, with their outcome
    m_result,     \* end of the last call: "returned" or the exception that
                  \* reached the caller; "none" before and during a call
    m_records,    \* records handed to the logging module, oldest first
    m_calls       \* number of send_gmail calls started

mailVars == << m_pc, m_values, m_body, m_raised, m_net, m_result, m_records,
               m_calls >>

VARIABLES
    th_pc,        \* per thread: position inside its codec call
    th_call,      \* per thread: the function it calls and its arguments
    th_local,     \* per thread: the local variables of its call
    th_ret,       \* per thread: the outcome of its call
    heap          \* the BytesIO objects allocated so far, by identity

threadVars == << th_pc, th_call, th_local, th_ret, heap >>

VARIABLES
    an_pc,        \* per thread: position inside print_animation
    an_ani,       \* per thread: the GIF bytes its animation renders to
    an_gif,       \* per thread: the local gif_bytes
    an_ret,       \* per thread: the outcome of its call
    fs            \* the file /tmp/temp_animation.gif

animVars == << an_pc, an_ani, an_gif, an_ret, fs >>

vars == << input_file, metadata, op, ret, arg, file_type, pc, log, df,
           m_pc, m_values, m_body, m_raised, m_net, m_result, m_records,
           m_calls, th_pc, th_call, th_local, th_ret, heap,
           an_pc, an_ani, an_gif, an_ret, fs >>

Threads == 1..NumThreads

NoLocals == [parts |-> << >>, file_data |-> 0, file_type |-> << >>]

NoThreadCall == [fn |-> "none", input |-> << >>, metadata |-> FALSE]

\* outcome of a call in a thread; file is the identity of a heap object,
\* 0 when there is none
ThreadPending ==
    [exc |-> "none", msg |-> "", shape |-> "nocall", file |-> 0,
     text |-> << >>]

\* the temporary file does not exist
NoTempFile == [exists |-> FALSE, data |-> << >>]

\* outcome of a print_animation call that has not ended
AnimPending ==
    [exc |-> "none", msg |-> "", shape |-> "nocall", file |-> NoFile,
     text |-> << >>]

\* no thread has called print_animation
AnimIdle ==
    /\ an_pc = [t \in Threads |-> "idle"]
    /\ an_ani = [t \in Threads |-> << >>]
    /\ an_gif = [t \in Threads |-> << >>]
    /\ an_ret = [t \in Threads |-> AnimPending]
    /\ fs = NoTempFile

\* no thread has called anything
ThreadsIdle ==
    /\ th_pc = [t \in Threads |-> "idle"]
    /\ th_call = [t \in Threads |-> NoThreadCall]
    /\ th_local = [t \in Threads |-> NoLocals]
    /\ th_ret = [t \in Threads |-> ThreadPending]
    /\ heap = << >>

\* no send_gmail call has been made
MailIdle ==
    /\ m_pc = "idle"
    /\ m_values = << >>
    /\ m_body = << >>
    /\ m_raised = "none"
    /\ m_net = << >>
    /\ m_result = "none"
    /\ m_records = << >>
    /\ m_calls = 0

NoCall == [exc |-> "none", msg |-> "", shape |-> "nocall", file |-> NoFile,
           text |-> << >>]

Init ==
    /\ input_file \in Inputs
    /\ metadata = FALSE
    /\ op = "none"
    /\ ret = NoCall
    /\ arg = << >>
    /\ file_type = NoCall
    /\ pc = "idle"
    /\ log = << >>
    /\ df = NoFrame
    /\ MailIdle
    /\ ThreadsIdle
    /\ AnimIdle

\* a call of input_to_file(input_file, metadata=m)
InputToFile ==
    /\ pc = "idle"
    /\ \E m \in BOOLEAN :
         /\ metadata' = m
         /\ ret' = input_to_file(input_file, m)
    /\ op' = "input_to_file"
    /\ arg' = << >>
    /\ file_type' = NoCall
    /\ log' = << >>
    /\ df' = NoFrame
    /\ UNCHANGED << input_file, pc >>
    /\ UNCHANGED mailVars
    /\ UNCHANGED threadVars
    /\ UNCHANGED animVars

\* a call of metadata_to_filetype, on the raw input or on the metadata that
\* input_to_file returned
MetadataToFiletype ==
    /\ pc = "idle"
    /\ \E a \in { input_file } \cup
                (IF ret.shape = "pair" THEN { ret.text } ELSE {}) :
         /\ arg' = a
         /\ file_type' = ReturnStr(metadata_to_filetype(a))
    /\ op' = "metadata_to_filetype"
    /\ log' = << >>
    /\ df' = NoFrame
    /\ UNCHANGED << input_file, metadata, ret, pc >>
    /\ UNCHANGED mailVars
    /\ UNCHANGED threadVars
    /\ UNCHANGED animVars

\* file_to_dataframe(file) is entered with the buffer input_to_file returned.
\* What pandas reads from the buffer, and where it leaves its position, is
\* outside this repository and not recorded in ret.
FileToDataframe ==
    /\ pc = "idle"
    /\ ret.shape \in { "file", "pair" }
    /\ pc' = "read_csv"
    /\ op' = "file_to_dataframe"
    /\ log' = << >>
    /\ df' = Pending
    /\ arg' = << >>
    /\ file_type' = NoCall
    /\ UNCHANGED << input_file, metadata, ret >>
    /\ UNCHANGED mailVars
    /\ UNCHANGED threadVars
    /\ UNCHANGED animVars

\* the attempt pd.read_csv(file)
ReadCsv ==
    /\ pc = "read_csv"
    /\ \E ok \in BOOLEAN :
         /\ log' = Append(log, Attempt("read_csv", ok))
         /\ pc' = after_read_csv(ok).pc
         /\ df' = after_read_csv(ok).df
    /\ UNCHANGED << input_file, metadata, op, ret, arg, file_type >>
    /\ UNCHANGED mailVars
    /\ UNCHANGED threadVars
    /\ UNCHANGED animVars

\* the attempt pd.read_excel(file, engine="openpyxl")
ReadExcel ==
    /\ pc = "read_excel"
    /\ \E ok \in BOOLEAN :
         /\ log' = Append(log, Attempt("read_excel", ok))
         /\ pc' = after_read_excel(ok).pc
         /\ df' = after_read_excel(ok).df
    /\ UNCHANGED << input_file, metadata, op, ret, arg, file_type >>
    /\ UNCHANGED mailVars
    /\ UNCHANGED threadVars
    /\ UNCHANGED animVars

Next ==
    \/ InputToFile
    \/ MetadataToFiletype
    \/ FileToDataframe
    \/ ReadCsv
    \/ ReadExcel

Spec == Init /\ [][Next]_vars

(***************************************************************************)
(* quiz_utils.py: send_gmail, one step per statement that can fail.        *)
(* Whether the SMTP server accepts an operation is decided outside this    *)
(* repository: each operation succeeds or raises, nondeterministically.    *)
(***************************************************************************)
\* Python values of the values argument
StrVal(cs) == [type |-> "str", val |-> cs]

IntVal(n) == [type |-> "int", val |-> << n >>]

ListVal(items) == [type |-> "list", val |-> items]

Digits == << "0", "1", "2", "3", "4", "5", "6", "7", "8", "9" >>

\* str(v) for a str or a one-digit int
str(v) == IF v.type = "int" THEN << Digits[v.val[1] + 1] >> ELSE v.val

\* ", ".join(str(v) for v in value)
RECURSIVE join(_)
join(items) ==
    IF Len(items) = 0 THEN << >>
    ELSE IF Len(items) = 1 THEN str(items[1])
    ELSE str(items[1]) \o << ",", " " >> \o join(Tail(items))

\* the loop of lines 101-103: one line per row; iterating a row that is
\* not iterable raises TypeError
RECURSIVE build_body(_)
build_body(values) ==
    IF Len(values) = 0 THEN [exc |-> "none", body |-> << >>]
    ELSE IF Head(values).type # "list"
    THEN [exc |-> "TypeError", body |-> << >>]
    ELSE LET rest == build_body(Tail(values))
         IN  IF rest.exc # "none" THEN rest
             ELSE [exc |-> "none",
                   body |-> join(Head(values).val) \o << "\n" >> \o rest.body]

\* the values arguments explored
MailValues ==
    { << >>,
      << ListVal(<< StrVal(<< "J" >>), IntVal(7) >>) >>,
      << ListVal(<< StrVal(<< "J" >>) >>), ListVal(<< >>) >>,
      << IntVal(7) >>,
      << ListVal(<< IntVal(1), IntVal(2) >>), IntVal(7) >> }

\* the exception each SMTP operation raises when it fails
ConnectError == "ConnectionRefusedError"

LoginError == "SMTPAuthenticationError"

SendError == "SMTPRecipientsRefused"

QuitError == "SMTPResponseException"

\* the exceptions that derive from smtplib.SMTPException
SMTPExceptions == { LoginError, SendError, QuitError }

\* the exceptions that derive from Exception
Exceptions == SMTPExceptions \cup { ConnectError, "TypeError" }

InfoRecord == [level |-> "INFO", text |-> "Email sent successfully!",
               exc |-> "none"]

\* logging.error(f"Failed to send email: {e}")
ErrorRecord(e) == [level |-> "ERROR", text |-> "Failed to send email: ",
                   exc |-> e]

\* a handler that catches smtplib.SMTPException only
caught_smtp_only(e) == e \in SMTPExceptions

\* except Exception as e: does the clause of line 112 catch e
caught(e) == e \in Exceptions

\* the try statement of lines 107-113 left with exception e ("none" when
\* the with block and line 111 completed): the records and the end of the
\* call
after_try(e, records) ==
    IF e = "none"
    THEN [records |-> Append(records, InfoRecord), result |-> "returned"]
    ELSE IF caught(e)
         THEN [records |-> Append(records, ErrorRecord(e)),
               result |-> "returned"]
         ELSE [records |-> records, result |-> e]

\* a call send_gmail(..., values)
SendGmail ==
    /\ m_pc = "idle"
    /\ m_calls < MaxCalls
    /\ m_values' \in MailValues
    /\ m_pc' = "build"
    /\ m_body' = << >>
    /\ m_raised' = "none"
    /\ m_net' = << >>
    /\ m_result' = "none"
    /\ m_calls' = m_calls + 1
    /\ UNCHANGED m_records
    /\ UNCHANGED codecVars
    /\ UNCHANGED threadVars
    /\ UNCHANGED animVars

\* lines 96-105, outside the try statement: an exception reaches the caller
BuildMessage ==
    /\ m_pc = "build"
    /\ LET built == build_body(m_values)
       IN  IF built.exc # "none"
           THEN /\ m_result' = built.exc
                /\ m_pc' = "idle"
                /\ UNCHANGED m_body
           ELSE /\ m_body' = built.body
                /\ m_pc' = "connect"
                /\ UNCHANGED m_result
    /\ UNCHANGED << m_values, m_raised, m_net, m_records, m_calls >>
    /\ UNCHANGED codecVars
    /\ UNCHANGED threadVars
    /\ UNCHANGED animVars

\* line 108: smtplib.SMTP_SSL('smtp.gmail.com', 465); a failure leaves the
\* try statement before the with block is entered
Connect ==
    /\ m_pc = "connect"
    /\ \E ok \in BOOLEAN :
         /\ m_net' = Append(m_net, Attempt("connect", ok))
         /\ IF ok
            THEN /\ m_pc' = "login"
                 /\ UNCHANGED << m_records, m_result >>
            ELSE /\ m_pc' = "idle"
                 /\ m_records' = after_try(ConnectError, m_records).records
                 /\ m_result' = after_try(ConnectError, m_records).result
    /\ UNCHANGED << m_values, m_body, m_raised, m_calls >>
    /\ UNCHANGED codecVars
    /\ UNCHANGED threadVars
    /\ UNCHANGED animVars

\* line 109: server.login(sender_email, app_password)
Login ==
    /\ m_pc = "login"
    /\ \E ok \in BOOLEAN :
         /\ m_net' = Append(m_net, Attempt("login", ok))
         /\ m_pc' = IF ok THEN "sendmail" ELSE "exit"
         /\ m_raised' = IF ok THEN "none" ELSE LoginError
    /\ UNCHANGED << m_values, m_body, m_records, m_result, m_calls >>
    /\ UNCHANGED codecVars
    /\ UNCHANGED threadVars
    /\ UNCHANGED animVars

\* line 110: server.sendmail(sender_email, receiver_email, ...)
Sendmail ==
    /\ m_pc = "sendmail"
    /\ \E ok \in BOOLEAN :
         /\ m_net' = Append(m_net, Attempt("sendmail", ok))
         /\ m_raised' = IF ok THEN "none" ELSE SendError
    /\ m_pc' = "exit"
    /\ UNCHANGED << m_values, m_body, m_records, m_result, m_calls >>
    /\ UNCHANGED codecVars
    /\ UNCHANGED threadVars
    /\ UNCHANGED animVars

\* the end of the with block: SMTP.__exit__ sends QUIT and raises when the
\* server answers anything but 221, replacing an exception already raised;
\* then line 111 or the handler of lines 112-113 runs and the call returns
ExitWith ==
    /\ m_pc = "exit"
    /\ \E ok \in BOOLEAN :
         /\ m_net' = Append(m_net, Attempt("quit", ok))
         /\ LET e == IF ok THEN m_raised ELSE QuitError
            IN  /\ m_records' = after_try(e, m_records).records
                /\ m_result' = after_try(e, m_records).result
    /\ m_pc' = "idle"
    /\ m_raised' = "none"
    /\ UNCHANGED << m_values, m_body, m_calls >>
    /\ UNCHANGED codecVars
    /\ UNCHANGED threadVars
    /\ UNCHANGED animVars

\* the codec is not used while send_gmail is followed
CodecUnused ==
    /\ input_file = << >>
    /\ metadata = FALSE
    /\ op = "none"
    /\ ret = NoCall
    /\ arg = << >>
    /\ file_type = NoCall
    /\ pc = "idle"
    /\ log = << >>
    /\ df = NoFrame

MailInit == CodecUnused /\ MailIdle /\ ThreadsIdle /\ AnimIdle

MailNext ==
    \/ SendGmail
    \/ BuildMessage
    \/ Connect
    \/ Login
    \/ Sendmail
    \/ ExitWith

SpecMail == MailInit /\ [][MailNext]_vars

(***************************************************************************)
(* The codec called from several threads. Each thread runs one call of     *)
(* input_to_file or metadata_to_filetype, statement by statement; the      *)
(* names of a call are its locals, the BytesIO objects live on the heap.   *)
(***************************************************************************)
\* the input strings the threads pass
ThreadInputs ==
    { << "d", "/", "c" >> \o SEP \o << "Q", "Q", "=", "=" >>,
      << "/", "c" >> \o SEP \o b64encode(<< 0, 65, 255 >>),
      << "Q", "Q", "=", "=" >>,
      SEP \o SEP,
      << "/" >> \o XLSX_MIME \o SEP \o << "=", "d" >> }

ThreadCalls ==
    { [fn |-> "input_to_file", input |-> i, metadata |-> m] :
        i \in ThreadInputs, m \in BOOLEAN }
    \cup { [fn |-> "metadata_to_filetype", input |-> i, metadata |-> FALSE] :
             i \in ThreadInputs }

\* one module-level buffer that every call rewrites
allocate_shared(h, bs) ==
    [heap |-> IF h = << >> THEN << BytesIO(bs) >>
              ELSE [h EXCEPT ![1] = BytesIO(bs)],
     id |-> 1]

\* io.BytesIO(...) inside a call: a new object, distinct from every other
allocate(h, bs) == [heap |-> Append(h, BytesIO(bs)), id |-> Len(h) + 1]

ThreadRaise(e, m) ==
    [exc |-> e, msg |-> m, shape |-> "none", file |-> 0, text |-> << >>]

\* a thread enters one of the two functions
ThreadCall(t) ==
    /\ th_pc[t] = "idle"
    /\ \E c \in ThreadCalls :
         /\ th_call' = [th_call EXCEPT ![t] = c]
         /\ th_pc' = [th_pc EXCEPT ![t] =
                        IF c.fn = "input_to_file" THEN "check" ELSE "search"]
    /\ UNCHANGED << th_local, th_ret, heap >>
    /\ UNCHANGED codecVars
    /\ UNCHANGED mailVars
    /\ UNCHANGED animVars

\* lines 54-55 of input_to_file
ThreadCheck(t) ==
    /\ th_pc[t] = "check"
    /\ IF ~ Contains(th_call[t].input, SEP)
       THEN /\ th_ret' = [th_ret EXCEPT ![t] =
                ThreadRaise("ValueError",
                            "Invalid input: must contain ';base64,'")]
            /\ th_pc' = [th_pc EXCEPT ![t] = "done"]
       ELSE /\ th_pc' = [th_pc EXCEPT ![t] = "split"]
            /\ UNCHANGED th_ret
    /\ UNCHANGED << th_call, th_local, heap >>
    /\ UNCHANGED codecVars
    /\ UNCHANGED mailVars
    /\ UNCHANGED animVars

\* line 57 of input_to_file
ThreadSplit(t) ==
    /\ th_pc[t] = "split"
    /\ LET parts == Split(th_call[t].input, SEP)
       IN  IF Len(parts) # 2
           THEN /\ th_ret' = [th_ret EXCEPT ![t] =
                    ThreadRaise("ValueError",
                                "too many values to unpack (expected 2)")]
                /\ th_pc' = [th_pc EXCEPT ![t] = "done"]
                /\ UNCHANGED th_local
           ELSE /\ th_local' = [th_local EXCEPT ![t].parts = parts]
                /\ th_pc' = [th_pc EXCEPT ![t] = "decode"]
                /\ UNCHANGED th_ret
    /\ UNCHANGED << th_call, heap >>
    /\ UNCHANGED codecVars
    /\ UNCHANGED mailVars
    /\ UNCHANGED animVars

\* line 58 of input_to_file
ThreadDecode(t) ==
    /\ th_pc[t] = "decode"
    /\ LET decoded == b64decode(th_local[t].parts[2])
       IN  IF decoded.exc # "none"
           THEN /\ th_ret' = [th_ret EXCEPT ![t] =
                                ThreadRaise(decoded.exc, decoded.msg)]
                /\ th_pc' = [th_pc EXCEPT ![t] = "done"]
                /\ UNCHANGED << th_local, heap >>
           ELSE /\ heap' = allocate(heap, decoded.bytes).heap
                /\ th_local' = [th_local EXCEPT ![t].file_data =
                                  allocate(heap, decoded.bytes).id]
                /\ th_pc' = [th_pc EXCEPT ![t] = "return"]
                /\ UNCHANGED th_ret
    /\ UNCHANGED th_call
    /\ UNCHANGED codecVars
    /\ UNCHANGED mailVars
    /\ UNCHANGED animVars

\* lines 59-61 of input_to_file
ThreadReturn(t) ==
    /\ th_pc[t] = "return"
    /\ th_ret' = [th_ret EXCEPT ![t] =
         [exc |-> "none", msg |-> "",
          shape |-> IF th_call[t].metadata THEN "pair" ELSE "file",
          file |-> th_local[t].file_data,
          text |-> IF th_call[t].metadata
                   THEN th_local[t].parts[1] \o SEP ELSE << >>]]
    /\ th_pc' = [th_pc EXCEPT ![t] = "done"]
    /\ UNCHANGED << th_call, th_local, heap >>
    /\ UNCHANGED codecVars
    /\ UNCHANGED mailVars
    /\ UNCHANGED animVars

\* lines 90-91 of metadata_to_filetype
ThreadSearch(t) ==
    /\ th_pc[t] = "search"
    /\ LET match == re_search(th_call[t].input)
       IN  th_local' = [th_local EXCEPT ![t].file_type =
                          IF match.matched THEN match.group1 ELSE << >>]
    /\ th_pc' = [th_pc EXCEPT ![t] = "normalize"]
    /\ UNCHANGED << th_call, th_ret, heap >>
    /\ UNCHANGED codecVars
    /\ UNCHANGED mailVars
    /\ UNCHANGED animVars

\* lines 94-97 of metadata_to_filetype
ThreadNormalize(t) ==
    /\ th_pc[t] = "normalize"
    /\ th_ret' = [th_ret EXCEPT ![t] =
         [exc |-> "none", msg |-> "", shape |-> "str", file |-> 0,
          text |-> IF th_local[t].file_type = XLSX_MIME THEN XLSX
                   ELSE th_local[t].file_type]]
    /\ th_pc' = [th_pc EXCEPT ![t] = "done"]
    /\ UNCHANGED << th_call, th_local, heap >>
    /\ UNCHANGED codecVars
    /\ UNCHANGED mailVars
    /\ UNCHANGED animVars

\* the caller reads the buffer it was returned, file.read(), to its end
ThreadRead(t) ==
    /\ th_pc[t] = "done"
    /\ th_ret[t].file # 0
    /\ heap' = [heap EXCEPT ![th_ret[t].file].pos =
                  Len(heap[th_ret[t].file].data)]
    /\ th_pc' = [th_pc EXCEPT ![t] = "read"]
    /\ UNCHANGED << th_call, th_local, th_ret >>
    /\ UNCHANGED codecVars
    /\ UNCHANGED mailVars
    /\ UNCHANGED animVars

MailUnused == MailIdle

ThreadInit == CodecUnused /\ MailUnused /\ ThreadsIdle /\ AnimIdle

ThreadNext ==
    \E t \in Threads :
        \/ ThreadCall(t)
        \/ ThreadCheck(t)
        \/ ThreadSplit(t)
        \/ ThreadDecode(t)
        \/ ThreadReturn(t)
        \/ ThreadSearch(t)
        \/ ThreadNormalize(t)
        \/ ThreadRead(t)

SpecThreads == ThreadInit /\ [][ThreadNext]_vars

(***************************************************************************)
(* test_general.py: input_to_file called with the keyword file_extension.  *)
(***************************************************************************)
\* the metadata prefixes of the four test files, with the extension the
\* test expects for each
TestFiles ==
    { [prefix |-> << "d", "a", "t", "a", ":", "i", "m", "a", "g", "e", "/",
                     "j", "p", "e", "g" >>,
       extension |-> << ".", "j", "p", "g" >>],
      [prefix |-> << "d", "a", "t", "a", ":", "a", "p", "p", "l", "i", "c",
                     "a", "t", "i", "o", "n", "/" >> \o XLSX_MIME,
       extension |-> << ".", "x", "l", "s", "x" >>],
      [prefix |-> << "d", "a", "t", "a", ":", "t", "e", "x", "t", "/",
                     "c", "s", "v" >>,
       extension |-> << ".", "c", "s", "v" >>],
      [prefix |-> << "d", "a", "t", "a", ":", "t", "e", "x", "t", "/",
                     "h", "t", "m", "l" >>,
       extension |-> << ".", "h", "t", "m", "l" >>] }

\* getInput(path): the payload of a test file with contents B
TestPayloads ==
    { [payload |-> Payload(f.prefix, B), extension |-> f.extension] :
        f \in TestFiles, B \in ByteSeqs }

\* the parameters of input_to_file that a keyword can bind besides the
\* positional input_file
KeywordParameters == { "metadata" }

\* input_to_file(input_file, <keyword>=value): a keyword that names no
\* parameter is a TypeError raised before the body runs
call_input_to_file(payload, keyword, value) ==
    IF keyword \notin KeywordParameters
    THEN Raise("TypeError",
               "input_to_file() got an unexpected keyword argument")
    ELSE input_to_file(payload, value)

\* a call input_to_file(input_file, <keyword>=True)
InputToFileKeyword ==
    /\ pc = "idle"
    /\ \E k \in { "metadata", "file_extension" } :
         /\ op' = k
         /\ ret' = call_input_to_file(input_file, k, TRUE)
    /\ metadata' = TRUE
    /\ UNCHANGED << input_file, arg, file_type, pc, log, df >>
    /\ UNCHANGED mailVars
    /\ UNCHANGED threadVars
    /\ UNCHANGED animVars

KeywordInit ==
    /\ input_file \in { p.payload : p \in TestPayloads }
    /\ metadata = FALSE
    /\ op = "none"
    /\ ret = NoCall
    /\ arg = << >>
    /\ file_type = NoCall
    /\ pc = "idle"
    /\ log = << >>
    /\ df = NoFrame
    /\ MailIdle
    /\ ThreadsIdle
    /\ AnimIdle

KeywordNext == InputToFileKeyword

SpecKeyword == KeywordInit /\ [][KeywordNext]_vars

(***************************************************************************)
(* plotting_utils.py: print_animation called from several threads, one     *)
(* step per statement that touches the temporary file.                     *)
(***************************************************************************)
\* the GIF renderings of the animations
Animations ==
    { << 71, 73, 70, 1 >>, << 71, 73, 70, 2 >>, << 71, 73, 70, 3 >> }

IMG_OPEN ==
    << "<", "i", "m", "g", " ", "s", "r", "c", "=", "'", "d", "a", "t", "a",
       ":", "i", "m", "a", "g", "e", "/", "g", "i", "f", ";", "b", "a", "s",
       "e", "6", "4", "," >>

IMG_CLOSE == << "'", " ", "/", ">" >>

\* f"<img src='data:image/gif;base64,{gif_base64}' />"
image_tag(gif_bytes) == IMG_OPEN \o b64encode(gif_bytes) \o IMG_CLOSE

\* a thread enters print_animation(ani)
AnimCall(t) ==
    /\ an_pc[t] = "idle"
    /\ \E a \in Animations : an_ani' = [an_ani EXCEPT ![t] = a]
    /\ an_pc' = [an_pc EXCEPT ![t] = "save"]
    /\ UNCHANGED << an_gif, an_ret, fs >>
    /\ UNCHANGED codecVars
    /\ UNCHANGED mailVars
    /\ UNCHANGED threadVars

\* line 129: ani.save(temp_file, ...) creates or overwrites the file
AnimSave(t) ==
    /\ an_pc[t] = "save"
    /\ fs' = [exists |-> TRUE, data |-> an_ani[t]]
    /\ an_pc' = [an_pc EXCEPT ![t] = "open"]
    /\ UNCHANGED << an_ani, an_gif, an_ret >>
    /\ UNCHANGED codecVars
    /\ UNCHANGED mailVars
    /\ UNCHANGED threadVars

\* lines 132-133: open(temp_file, "rb") and f.read(); FileNotFoundError
\* when the file is not there
AnimOpenRead(t) ==
    /\ an_pc[t] = "open"
    /\ IF fs.exists
       THEN /\ an_gif' = [an_gif EXCEPT ![t] = fs.data]
            /\ an_pc' = [an_pc EXCEPT ![t] = "remove"]
            /\ UNCHANGED an_ret
       ELSE /\ an_ret' = [an_ret EXCEPT ![t] =
                            Raise("FileNotFoundError", "open")]
            /\ an_pc' = [an_pc EXCEPT ![t] = "done"]
            /\ UNCHANGED an_gif
    /\ UNCHANGED << an_ani, fs >>
    /\ UNCHANGED codecVars
    /\ UNCHANGED mailVars
    /\ UNCHANGED threadVars

\* line 136: os.remove(temp_file); FileNotFoundError when the file is not
\* there
AnimRemove(t) ==
    /\ an_pc[t] = "remove"
    /\ IF fs.exists
       THEN /\ fs' = NoTempFile
            /\ an_pc' = [an_pc EXCEPT ![t] = "return"]
            /\ UNCHANGED an_ret
       ELSE /\ an_ret' = [an_ret EXCEPT ![t] =
                            Raise("FileNotFoundError", "os.remove")]
            /\ an_pc' = [an_pc EXCEPT ![t] = "done"]
            /\ UNCHANGED fs
    /\ UNCHANGED << an_ani, an_gif >>
    /\ UNCHANGED codecVars
    /\ UNCHANGED mailVars
    /\ UNCHANGED threadVars

\* lines 139-140
AnimReturn(t) ==
    /\ an_pc[t] = "return"
    /\ an_ret' = [an_ret EXCEPT ![t] = ReturnStr(image_tag(an_gif[t]))]
    /\ an_pc' = [an_pc EXCEPT ![t] = "done"]
    /\ UNCHANGED << an_ani, an_gif, fs >>
    /\ UNCHANGED codecVars
    /\ UNCHANGED mailVars
    /\ UNCHANGED threadVars

AnimInit == CodecUnused /\ MailUnused /\ ThreadsIdle /\ AnimIdle

AnimNext ==
    \E t \in Threads :
        \/ AnimCall(t)
        \/ AnimSave(t)
        \/ AnimOpenRead(t)
        \/ AnimRemove(t)
        \/ AnimReturn(t)

SpecAnim == AnimInit /\ [][AnimNext]_vars

(***************************************************************************)
(* Properties.                                                             *)
(***************************************************************************)
\* input_to_file has been called on input_file; ret is its outcome
Called == ret.shape # "nocall"

\* the separator occurs in s, stated without Find
HasSeparator(s) ==
    \E i \in 1..(Len(s) - Len(SEP) + 1) : SubSeq(s, i, i + Len(SEP) - 1) = SEP

\* C1: round-trip law of input_to_file. For every prefix P without the
\* separator and every byte string B, the call on P + ";base64," +
\* b64encode(B) returns a buffer whose contents are exactly B.
C1_RoundTrip ==
    \A w \in WellFormed :
        (Called /\ input_file = w.payload)
            => /\ ret.exc = "none"
               /\ ret.shape \in { "file", "pair" }
               /\ ret.file.data = w.bytes

\* a three-byte string with the bytes 0, 65 and 255, under the JPEG prefix,
\* has been decoded
C1_Witness ==
    /\ Called
    /\ \E w \in WellFormed :
         /\ w.bytes = << 0, 65, 255 >>
         /\ Len(w.prefix) = 15
         /\ input_file = w.payload
    /\ ret.file.data = << 0, 65, 255 >>

\* C2: for every input without the substring ";base64," input_to_file
\* raises the ValueError of its format check and returns no buffer,
\* whatever the metadata flag.
C2_MissingSeparator ==
    (Called /\ ~ HasSeparator(input_file))
        => /\ ret.exc = "ValueError"
           /\ ret.msg = "Invalid input: must contain ';base64,'"
           /\ ret.shape = "none"
           /\ ret.file = NoFile

\* a non-empty input without the separator was rejected, metadata requested
C2_Witness ==
    /\ Called
    /\ metadata
    /\ input_file = << "Q", "Q", "=", "=" >>
    /\ ret.exc = "ValueError"

\* index of the first occurrence of the separator, stated without Find
FirstSeparator(s) ==
    CHOOSE i \in 1..(Len(s) - Len(SEP) + 1) :
        /\ SubSeq(s, i, i + Len(SEP) - 1) = SEP
        /\ \A j \in 1..(i - 1) : SubSeq(s, j, j + Len(SEP) - 1) # SEP

\* the text before, and the text after, the first separator
PrefixOf(s) == SubSeq(s, 1, FirstSeparator(s) - 1)

BodyOf(s) == SubSeq(s, FirstSeparator(s) + Len(SEP), Len(s))

\* the separator occurs exactly once
OneSeparator(s) ==
    /\ HasSeparator(s)
    /\ \A j \in 1..(Len(s) - Len(SEP) + 1) :
         SubSeq(s, j, j + Len(SEP) - 1) = SEP => j = FirstSeparator(s)

\* b is standard base64: groups of four alphabet characters, the last
\* group possibly ending in one or two "="
ValidBase64(b) ==
    /\ Len(b) % 4 = 0
    /\ \A k \in 1..Len(b) :
         \/ b[k] \in B64Set
         \/ /\ b[k] = "="
            /\ k >= Len(b) - 1
            /\ k >= 3
            /\ k = Len(b) - 1 => b[Len(b)] = "="

\* C3: a payload with the separator whose body is not valid standard
\* base64 (a character outside the alphabet, wrong padding) makes
\* input_to_file fail with the decode error and return no buffer. Stated
\* for the payloads with exactly one separator.
C3_InvalidBodyRejected ==
    (Called /\ OneSeparator(input_file) /\ ~ ValidBase64(BodyOf(input_file)))
        => /\ ret.exc = "binascii.Error"
           /\ ret.shape = "none"

\* C4: input_to_file splits on the first occurrence of the separator: the
\* metadata is the text before it, the body everything after it, and the
\* outcome is that of decoding this body.
C4_SplitOnFirst ==
    (Called /\ HasSeparator(input_file))
        => LET expected == b64decode(BodyOf(input_file))
           IN  /\ ret.exc = expected.exc
               /\ expected.exc = "none"
                    => /\ ret.shape \in { "file", "pair" }
                       /\ ret.file.data = expected.bytes
                       /\ metadata => ret.text = PrefixOf(input_file) \o SEP

\* C5: result shape of input_to_file. With metadata requested the result
\* is the pair (buffer, text before the separator + ";base64,"), otherwise
\* the buffer alone; the buffer is positioned at offset 0.
C5_ResultShape ==
    (op = "input_to_file" /\ ret.exc = "none")
        => /\ ret.file # NoFile
           /\ ret.file.pos = 0
           /\ metadata
                => /\ ret.shape = "pair"
                   /\ ret.text = PrefixOf(input_file) \o SEP
           /\ ~ metadata
                => /\ ret.shape = "file"
                   /\ ret.text = << >>
           /\ \A w \in WellFormed :
                (metadata /\ input_file = w.payload)
                    => ret.text = w.prefix \o SEP

\* a JPEG payload with a non-empty body was decoded with metadata requested
C5_Witness ==
    /\ op = "input_to_file"
    /\ metadata
    /\ ret.shape = "pair"
    /\ ret.text = << "d", "a", "t", "a", ":", "i", "m", "a", "g", "e", "/",
                     "j", "p", "e", "g", ";", "b", "a", "s", "e", "6", "4",
                     "," >>
    /\ Len(ret.file.data) = 2
    /\ ret.file.pos = 0

\* metadata_to_filetype has been called on arg; file_type is its outcome
Classified == file_type.shape # "nocall"

\* positions of the slashes of s that precede position j
SlashesBefore(s, j) == { i \in 1..(j - 1) : s[i] = "/" }

\* the single normalization of the label
Alias(subtype) == IF subtype = XLSX_MIME THEN XLSX ELSE subtype

\* s has one ";base64," marker, at least one "/" before it, a non-empty
\* text without newline between the last such "/" and the marker
MarkedSubtype(s) ==
    /\ OneSeparator(s)
    /\ SlashesBefore(s, FirstSeparator(s)) # {}
    /\ \A i \in SlashesBefore(s, FirstSeparator(s)) :
         /\ i + 1 < FirstSeparator(s)
         /\ \A k \in (i + 1)..(FirstSeparator(s) - 1) : s[k] # "\n"

LastSlash(s) ==
    CHOOSE i \in SlashesBefore(s, FirstSeparator(s)) :
        \A k \in SlashesBefore(s, FirstSeparator(s)) : k <= i

\* C6: metadata_to_filetype extracts the text between the last "/" that
\* precedes ";base64," and the marker: "data:a/b/c;base64," gives "c".
C6_LastSlash ==
    (Classified /\ MarkedSubtype(arg))
        => file_type.text =
             Alias(SubSeq(arg, LastSlash(arg) + 1, FirstSeparator(arg) - 1))

\* C7: exactly one normalization. The Excel Open XML subtype becomes
\* "xlsx", every other extracted subtype is the label unchanged: for a
\* metadata with a single "/" before its single marker the label is the
\* text between them, aliased only when it is the Excel subtype; jpeg and csv
\* pass through.
C7_SingleAlias ==
    Classified
        => /\ (MarkedSubtype(arg)
                 /\ Cardinality(SlashesBefore(arg, FirstSeparator(arg))) = 1)
                => /\ file_type.text =
                        Alias(SubSeq(arg, LastSlash(arg) + 1,
                                     FirstSeparator(arg) - 1))
                   /\ file_type.text # XLSX
                        => file_type.text =
                             SubSeq(arg, LastSlash(arg) + 1,
                                    FirstSeparator(arg) - 1)
           /\ arg = << "d", "a", "t", "a", ":", "i", "m", "a", "g", "e",
                       "/", "j", "p", "e", "g" >> \o SEP
                => file_type.text = << "j", "p", "e", "g" >>
           /\ arg = << "d", "a", "t", "a", ":", "t", "e", "x", "t", "/",
                       "c", "s", "v" >> \o SEP
                => file_type.text = << "c", "s", "v" >>
           /\ arg = << "d", "a", "t", "a", ":", "a", "p", "p", "l", "i",
                       "c", "a", "t", "i", "o", "n", "/" >>
                    \o XLSX_MIME \o SEP
                => file_type.text = << "x", "l", "s", "x" >>
           /\ file_type.text = XLSX
                => \E i \in 1..Len(arg) : MatchAt(arg, i, XLSX_MIME)

\* the metadata returned for an Excel payload was classified as "xlsx"
C7_Witness ==
    /\ Classified
    /\ ret.shape = "pair"
    /\ arg = ret.text
    /\ Len(arg) = 17 + Len(XLSX_MIME) + Len(SEP)
    /\ file_type.text = XLSX

\* s contains a "/", then at least one character, then the marker
HasShape(s) ==
    \E i \in 1..Len(s) :
        /\ s[i] = "/"
        /\ \E j \in (i + 2)..(Len(s) - Len(SEP) + 1) :
             SubSeq(s, j, j + Len(SEP) - 1) = SEP

\* C8: metadata_to_filetype is permissive. It never raises, and for a
\* string without the shape "/<non-empty subtype>;base64," (no "/", no
\* marker, or nothing between them) it returns the empty string.
C8_Permissive ==
    Classified
        => /\ file_type.exc = "none"
           /\ file_type.shape = "str"
           /\ ~ HasShape(arg) => file_type.text = << >>

\* a marker without any slash, or a slash directly followed by the marker,
\* was classified as ""
C8_Witness ==
    /\ Classified
    /\ arg \in { << "d" >> \o SEP, << "/" >> \o SEP }
    /\ file_type.text = << >>
    /\ file_type.exc = "none"

\* b is what a standard encoder emits: alphabet characters in groups of
\* four, "=" only as the padding of the last group, unused trailing bits 0
Canonical(b) ==
    /\ Len(b) % 4 = 0
    /\ \A k \in 1..(Len(b) - 2) : b[k] \in B64Set
    /\ Len(b) > 0
         => \/ /\ b[Len(b) - 1] \in B64Set
               /\ b[Len(b)] \in B64Set
            \/ /\ b[Len(b) - 1] \in B64Set
               /\ b[Len(b)] = "="
               /\ B64Val[b[Len(b) - 1]] % 4 = 0
            \/ /\ b[Len(b) - 1] = "="
               /\ b[Len(b)] = "="
               /\ B64Val[b[Len(b) - 2]] % 16 = 0

\* C9 as stated: for every accepted payload, encoding the returned bytes
\* gives back the payload's body, byte for byte. Stated for the accepted
\* payloads whose body is valid standard base64.
C9_ReencodeIsBody ==
    (Called /\ ret.exc = "none" /\ ValidBase64(BodyOf(input_file)))
        => b64encode(ret.file.data) = BodyOf(input_file)

\* C9 amended: for every accepted payload, encoding the returned bytes
\* gives a string that decodes to the same bytes, and that string is the
\* payload's body exactly when the body is canonical standard base64.
C9_ReencodeCanonical ==
    (Called /\ ret.exc = "none")
        => LET again == b64encode(ret.file.data)
           IN  /\ b64decode(again) = Decoded(ret.file.data)
               /\ Canonical(again)
               /\ (again = BodyOf(input_file)) <=> Canonical(BodyOf(input_file))

\* an accepted body with non-zero trailing bits ("QR==") re-encodes to the
\* canonical "QQ=="
C9_Witness ==
    /\ Called
    /\ ret.exc = "none"
    /\ BodyOf(input_file) = << "Q", "R", "=", "=" >>
    /\ b64encode(ret.file.data) = << "Q", "Q", "=", "=" >>

\* C10 (state part): inside and after file_to_dataframe the attempts are
\* read_csv first, read_excel second and only after read_csv failed; a
\* successful read_csv is returned; ParserError is the outcome only when
\* both attempts failed.
FallbackOrder ==
    /\ Len(log) <= 2
    /\ Len(log) >= 1 => log[1].parser = "read_csv"
    /\ Len(log) = 2 => log[2].parser = "read_excel" /\ ~ log[1].ok
    /\ (Len(log) >= 1 /\ log[1].ok)
         => Len(log) = 1 /\ pc = "idle" /\ df = ReturnFrame("read_csv")
    /\ pc = "read_excel" => log = << Attempt("read_csv", FALSE) >>
    /\ df.exc = "ParserError"
         => log = << Attempt("read_csv", FALSE), Attempt("read_excel", FALSE) >>
    /\ (\E k \in 1..Len(log) : log[k].ok) => df.exc = "none"
    /\ df.state = "returned"
         => log[Len(log)] = Attempt(df.parser, TRUE)

\* C10 (step part): the excel parser runs only in a step that starts after
\* a failed read_csv, and an outcome is produced only by a step that makes
\* an attempt.
FallbackStep ==
    /\ (Len(log') > Len(log) /\ log'[Len(log')].parser = "read_excel")
         => log = << Attempt("read_csv", FALSE) >>
    /\ (df'.state \in { "returned", "raised" } /\ df' # df)
         => Len(log') = Len(log) + 1

\* C10: file_to_dataframe tries read_csv first and returns its result if
\* it succeeds, tries read_excel only after read_csv failed, and raises
\* ParserError only after both failed.
C10_FallbackOrder == [] FallbackOrder /\ [][FallbackStep]_vars

\* both parsers failed and ParserError was raised
C10_Witness ==
    /\ op = "file_to_dataframe"
    /\ pc = "idle"
    /\ df = RaiseParserError
    /\ log = << Attempt("read_csv", FALSE), Attempt("read_excel", FALSE) >>

\* a send_gmail call has ended and nothing was started since
MailEnded == m_pc = "idle" /\ m_calls > 0

\* the SMTP operations of the call that failed
FailedOps == { k \in 1..Len(m_net) : ~ m_net[k].ok }

\* the exception an SMTP operation raises when it fails, by operation
ErrorOf(stage) ==
    CASE stage = "connect"  -> "ConnectionRefusedError"
      [] stage = "login"    -> "SMTPAuthenticationError"
      [] stage = "sendmail" -> "SMTPRecipientsRefused"
      [] stage = "quit"     -> "SMTPResponseException"

\* C11: email delivery is best-effort. When connecting, logging in or
\* sending (or closing the connection) fails, the call logs one error
\* record carrying an exception raised in the call and returns normally;
\* when every operation succeeds it logs the success message.
C11_BestEffort ==
    (MailEnded /\ m_net # << >>)
        => /\ m_result = "returned"
           /\ m_records # << >>
           /\ FailedOps # {}
                => /\ m_records[Len(m_records)].level = "ERROR"
                   /\ \E k \in FailedOps :
                        m_records[Len(m_records)].exc = ErrorOf(m_net[k].parser)
           /\ FailedOps = {}
                => /\ Len(m_net) = 4
                   /\ m_records[Len(m_records)] = InfoRecord

\* the connection was refused in the second call, after a first call that
\* sent its message
C11_Witness ==
    /\ MailEnded
    /\ m_calls = 2
    /\ m_net = << Attempt("connect", FALSE) >>
    /\ m_result = "returned"
    /\ m_records = << InfoRecord, ErrorRecord("ConnectionRefusedError") >>

\* the outcome of thread t with its buffer looked up on the heap
ThreadOutcome(t) ==
    [exc   |-> th_ret[t].exc,
     msg   |-> th_ret[t].msg,
     shape |-> th_ret[t].shape,
     data  |-> IF th_ret[t].file = 0 THEN << >>
               ELSE heap[th_ret[t].file].data,
     text  |-> th_ret[t].text]

\* what the same call gives when nothing else runs
AloneOutcome(c) ==
    LET r == IF c.fn = "input_to_file"
             THEN input_to_file(c.input, c.metadata)
             ELSE ReturnStr(metadata_to_filetype(c.input))
    IN  [exc |-> r.exc, msg |-> r.msg, shape |-> r.shape,
         data |-> r.file.data, text |-> r.text]

ThreadEnded(t) == th_pc[t] \in { "done", "read" }

\* C12 (state part): the result of every finished call is the one the call
\* gives alone on its own arguments; the buffers returned to two calls are
\* distinct objects; a buffer stays at offset 0 until its own caller reads.
ThreadsIsolated ==
    /\ \A t \in Threads :
         ThreadEnded(t)
            => /\ ThreadOutcome(t) = AloneOutcome(th_call[t])
               /\ th_ret[t].file # 0
                    => /\ th_ret[t].file \in 1..Len(heap)
                       /\ th_pc[t] = "done" => heap[th_ret[t].file].pos = 0
    /\ \A t, u \in Threads :
         (t # u /\ ThreadEnded(t) /\ ThreadEnded(u) /\ th_ret[t].file # 0)
            => th_ret[t].file # th_ret[u].file

\* C12 (step part): a step changes the locals and the outcome of one thread
\* only, never an object that is already on the heap unless it is the
\* buffer returned to the stepping thread.
ThreadsStep ==
    \E t \in Threads :
        /\ \A u \in Threads \ { t } :
             /\ th_pc'[u] = th_pc[u]
             /\ th_call'[u] = th_call[u]
             /\ th_local'[u] = th_local[u]
             /\ th_ret'[u] = th_ret[u]
        /\ Len(heap') >= Len(heap)
        /\ \A i \in 1..Len(heap) :
             heap'[i] # heap[i] => (th_ret[t].file = i /\ th_pc[t] = "done")

\* C12: the codec is safe under concurrent use.
C12_ThreadSafe == [] ThreadsIsolated /\ [][ThreadsStep]_vars

\* two threads decoded different payloads, their steps interleaved, and
\* hold different buffers with their own bytes; one has read its buffer
C12_Witness ==
    /\ th_pc[1] = "read"
    /\ th_pc[2] = "done"
    /\ th_ret[1].file = 2
    /\ th_ret[2].file = 1
    /\ heap[2].data = << 0, 65, 255 >>
    /\ heap[1].data = << 65 >>
    /\ heap[1].pos = 0

\* C13: input_to_file called with file_extension=True returns the pair
\* (buffer, extension), the extension being ".jpg", ".xlsx", ".csv" or
\* ".html" for a JPEG, Excel, CSV or HTML payload.
C13_FileExtension ==
    \A p \in TestPayloads :
        (op = "file_extension" /\ input_file = p.payload)
            => /\ ret.exc = "none"
               /\ ret.shape = "pair"
               /\ ret.file # NoFile
               /\ ret.text = p.extension

\* every thread has left print_animation
AnimAllDone == \A t \in Threads : an_pc[t] = "done"

\* C14: when print_animation calls on different animations interleave,
\* every call completes without error and returns the image tag of its own
\* GIF bytes, and no temporary file remains after all have returned.
C14_ConcurrentAnimation ==
    (AnimAllDone /\ \A t, u \in Threads : t # u => an_ani[t] # an_ani[u])
        => /\ \A t \in Threads :
                /\ an_ret[t].exc = "none"
                /\ an_ret[t].text = image_tag(an_ani[t])
           /\ ~ fs.exists

=============================================================================
